---------------------------- MODULE Spec2Model ----------------------------
(***************************************************************************)
(* A model of get_papers_list: the affiliation classifier, the PubMed      *)
(* locator and fetcher, the record extractor (papers.py) and the command   *)
(* line pipeline (main.py).                                                *)
(*                                                                         *)
(* A Python str is a sequence of one-character strings, so that substring  *)
(* containment, lower(), len() and join() are computed and not assumed.    *)
(***************************************************************************)
EXTENDS Integers, Sequences, FiniteSets, TLC

VARIABLES
  pc,               \* position of the caller / of main
  affiliation,      \* argument of is_non_academic
  verdict,          \* return value of is_non_academic
  args,             \* parsed command line: [file, debug]
  search_response,  \* what the ESearch endpoint answered
  fetch_response,   \* what the EFetch endpoint answered
  pmids,            \* return value of search_pubmed / argument of fetch_paper_details
  xml_data,         \* return value of fetch_paper_details / argument of parse_and_filter_papers
  results,          \* return value of parse_and_filter_papers (with the loop's locals per row)
  net,              \* the network requests issued so far
  calls,            \* the stages invoked so far, in order
  raised,           \* the exception that left the called function, "none" if it returned
  stdout,           \* messages printed by main on the output stream
  stderr,           \* messages printed by main on the error stream
  report,           \* where main wrote the table: "none", "stdout" or "file"
  exit_code         \* the process exit code, -1 while running

vars == << pc, affiliation, verdict, args, search_response, fetch_response, pmids,
           xml_data, results, net, calls, raised, stdout, stderr, report, exit_code >>

-----------------------------------------------------------------------------
(* Python values *)

\* None, and an XML child element that is not there; neither is a str.
None == << "<None>" >>
Absent == << "<absent>" >>

IsStr(x) == x # None /\ x # Absent

\* bool(x) of a str or None
Truthy(x) == x # None /\ x # Absent /\ x # << >>

LowerChar(c) ==
  CASE c = "A" -> "a" [] c = "B" -> "b" [] c = "C" -> "c" [] c = "D" -> "d"
    [] c = "E" -> "e" [] c = "F" -> "f" [] c = "G" -> "g" [] c = "H" -> "h"
    [] c = "I" -> "i" [] c = "J" -> "j" [] c = "K" -> "k" [] c = "L" -> "l"
    [] c = "M" -> "m" [] c = "N" -> "n" [] c = "O" -> "o" [] c = "P" -> "p"
    [] c = "Q" -> "q" [] c = "R" -> "r" [] c = "S" -> "s" [] c = "T" -> "t"
    [] c = "U" -> "u" [] c = "V" -> "v" [] c = "W" -> "w" [] c = "X" -> "x"
    [] c = "Y" -> "y" [] c = "Z" -> "z" [] OTHER -> c

\* str.lower()
Lower(s) == [i \in 1..Len(s) |-> LowerChar(s[i])]

\* sub in s
Contains(s, sub) ==
  \E i \in 0..(Len(s) - Len(sub)) :
    \A j \in 1..Len(sub) : s[i + j] = sub[j]

RECURSIVE Join(_, _)
\* sep.join(parts), every part a str
Join(sep, parts) ==
  IF parts = << >> THEN << >>
  ELSE IF Len(parts) = 1 THEN parts[1]
  ELSE parts[1] \o sep \o Join(sep, Tail(parts))

\* the text an f-string puts for a value: str(None) is "None"
Format(x) == IF x = None THEN <<"N","o","n","e">> ELSE x

\* A document: kind "empty" is the empty str, "malformed" a text that
\* ET.fromstring rejects with ParseError, "xml" a text that parses, held as the
\* PubmedArticle elements of its tree in document order.
MkDocument(kind, articles) == [ kind |-> kind, articles |-> articles ]

EmptyDocument == MkDocument("empty", << >>)
MalformedDocument == MkDocument("malformed", << >>)

-----------------------------------------------------------------------------
(* papers.py: the affiliation classifier *)

COMPANY_KEYWORDS ==
  << <<"i","n","c">>,
     <<"l","t","d">>,
     <<"l","l","c">>,
     <<"c","o","r","p">>,
     <<"c","o","r","p","o","r","a","t","i","o","n">>,
     <<"p","h","a","r","m","a","c","e","u","t","i","c","a","l","s">>,
     <<"t","h","e","r","a","p","e","u","t","i","c","s">>,
     <<"d","i","a","g","n","o","s","t","i","c","s">>,
     <<"b","i","o","t","e","c","h">>,
     <<"v","e","n","t","u","r","e","s">>,
     <<"g","m","b","h">>,
     <<"p","h","a","r","m","a">> >>

ACADEMIC_KEYWORDS ==
  << <<"u","n","i","v","e","r","s","i","t","y">>,
     <<"c","o","l","l","e","g","e">>,
     <<"s","c","h","o","o","l">>,
     <<"h","o","s","p","i","t","a","l">>,
     <<"i","n","s","t","i","t","u","t","e">>,
     <<"c","e","n","t","e","r">>,
     <<"f","o","u","n","d","a","t","i","o","n">>,
     <<"r","e","s","e","a","r","c","h">>,
     <<"a","c","a","d","e","m","y">>,
     <<"m","e","d","i","c","a","l"," ","c","e","n","t","e","r">>,
     <<"u","n","i","v","e","r","z","i","t","a">> >>

\* any(keyword in text for keyword in keywords)
AnyKeywordIn(keywords, text) ==
  \E k \in 1..Len(keywords) : Contains(text, keywords[k])

\* mutant: the academic keywords are looked up before the company keywords
is_non_academic_AcademicFirst(affiliation_) ==
  IF ~Truthy(affiliation_) THEN FALSE
  ELSE LET lower_affiliation == Lower(affiliation_) IN
       IF AnyKeywordIn(ACADEMIC_KEYWORDS, lower_affiliation) THEN FALSE
       ELSE TRUE

\* mutant: the text is matched as written, without lower()
is_non_academic_NoLower(affiliation_) ==
  IF ~Truthy(affiliation_) THEN FALSE
  ELSE IF AnyKeywordIn(COMPANY_KEYWORDS, affiliation_) THEN TRUE
  ELSE IF AnyKeywordIn(ACADEMIC_KEYWORDS, affiliation_) THEN FALSE
  ELSE TRUE

\* TRUE: NON_ACADEMIC, FALSE: ACADEMIC
is_non_academic(affiliation_) ==
  IF ~Truthy(affiliation_) THEN FALSE
  ELSE LET lower_affiliation == Lower(affiliation_) IN
       IF AnyKeywordIn(COMPANY_KEYWORDS, lower_affiliation) THEN TRUE
       ELSE IF AnyKeywordIn(ACADEMIC_KEYWORDS, lower_affiliation) THEN FALSE
       ELSE TRUE

-----------------------------------------------------------------------------
(* papers.py: the record extractor.                                        *)
(*                                                                         *)
(* The document is held as what ET.fromstring makes of it: kind "empty" is *)
(* the empty str, "malformed" a text ET.fromstring rejects with ParseError,*)
(* "xml" a parsed tree, of which the model keeps the PubmedArticle         *)
(* elements in document order. A child element is Absent, or its text:     *)
(* None for an element without text, a str otherwise. An Author keeps the  *)
(* texts of its Affiliation elements in order.                             *)

NA == <<"N","/","A">>
NoTitle == <<"N","o"," ","T","i","t","l","e">>
CommaSpace == <<","," ">>

\* author.find('.//AffiliationInfo/Affiliation'): the first one, if any
FirstAffiliation(author) ==
  IF author.affiliations = << >> THEN Absent ELSE author.affiliations[1]

\* node.findtext(tag, default): the default for no element, "" for one without text
findtext(child, default) ==
  IF child = Absent THEN default
  ELSE IF child = None THEN << >>
  ELSE child

\* the name of a non-academic author
AuthorName(author) ==
  IF author.LastName # Absent /\ author.Initials # Absent
    THEN Format(author.Initials) \o <<" ">> \o Format(author.LastName)
  ELSE IF author.LastName # Absent THEN author.LastName
  ELSE NA

\* the two conditions under which an author is appended
CountsAsNonAcademic(author) ==
  LET affiliation_info == FirstAffiliation(author) IN
  /\ affiliation_info # Absent /\ Truthy(affiliation_info)
  /\ is_non_academic(affiliation_info)

\* the authors the loop appends, in order
SelectedAuthors(author_list) ==
  SelectSeq(author_list, CountsAsNonAcademic)

\* the loop's non_academic_authors
NonAcademicAuthors(author_list) ==
  LET sel == SelectedAuthors(author_list) IN
  [i \in 1..Len(sel) |-> AuthorName(sel[i])]

\* the loop's company_affiliations
CompanyAffiliations(author_list) ==
  LET sel == SelectedAuthors(author_list) IN
  { FirstAffiliation(sel[i]) : i \in 1..Len(sel) }

\* mutant: the year is not looked at
FormatPubDate_NoCollapse(year, month, day) ==
  year \o <<"-">> \o month \o <<"-">> \o day

\* f"{year}-{month}-{day}" if year != "N/A" else "N/A"
FormatPubDate(year, month, day) ==
  IF year # NA THEN year \o <<"-">> \o month \o <<"-">> \o day ELSE NA

\* mutant: the length test lets a five-character text through
LooksLikeEmail_AtLeastFive(aff) ==
  Contains(aff, <<"@">>) /\ Len(aff) >= 5

\* '@' in aff and len(aff) > 5
LooksLikeEmail(aff) ==
  Contains(aff, <<"@">>) /\ Len(aff) > 5

\* the orders in which a set may be iterated
Orders(S) ==
  { f \in [1..Cardinality(S) -> S] : \A i, j \in DOMAIN f : i # j => f[i] # f[j] }

\* the first entry of the iteration that looks like an email, else "N/A"
CorrAuthorEmail(order) ==
  IF \E i \in 1..Len(order) : LooksLikeEmail(order[i])
    THEN order[CHOOSE i \in 1..Len(order) :
                 /\ LooksLikeEmail(order[i])
                 /\ \A j \in 1..(i - 1) : ~LooksLikeEmail(order[j])]
    ELSE NA

\* mutant: every record is processed as if it had a non-academic author
HasNonAcademicAuthor_Always(non_academic_authors) ==
  TRUE

\* if non_academic_authors:
HasNonAcademicAuthor(non_academic_authors) ==
  non_academic_authors # << >>

NoRow ==
  [ PubmedID |-> NA, Title |-> NA, Publication_Date |-> NA,
    Non_academic_Authors |-> << >>, Company_Affiliations |-> << >>,
    Corresponding_Author_Email |-> NA ]

\* What the body of the try block does with one PubmedArticle: "skip" (no
\* non-academic author), "row", or "error" with the exception raised.
\* Iterating the set company_affiliations has no defined order: one outcome
\* per order.
ArticleOutcomes(article) ==
  LET non_academic_authors == NonAcademicAuthors(article.authors)
      company_affiliations == CompanyAffiliations(article.authors)
      locals == [ non_academic_authors |-> non_academic_authors,
                  company_affiliations |-> company_affiliations ]
  IN
  IF ~HasNonAcademicAuthor(non_academic_authors)
    THEN { [kind |-> "skip", row |-> NoRow, locals |-> locals, exc |-> "none"] }
  ELSE IF ~article.PubDate.present
    \* pub_date_node is None: None.findtext
    THEN { [kind |-> "error", row |-> NoRow, locals |-> locals, exc |-> "AttributeError"] }
  ELSE IF \E i \in 1..Len(non_academic_authors) : non_academic_authors[i] = None
    \* ", ".join(...) of a list holding None
    THEN { [kind |-> "error", row |-> NoRow, locals |-> locals, exc |-> "TypeError"] }
  ELSE
    LET pmid == IF article.PMID # Absent THEN article.PMID ELSE NA
        title == IF article.ArticleTitle # Absent THEN article.ArticleTitle ELSE NoTitle
        year == findtext(article.PubDate.Year, NA)
        month == findtext(article.PubDate.Month, NA)
        day == findtext(article.PubDate.Day, NA)
        pub_date == FormatPubDate(year, month, day)
    IN
    { [ kind |-> "row",
        row |-> [ PubmedID |-> pmid,
                  Title |-> title,
                  Publication_Date |-> pub_date,
                  Non_academic_Authors |-> Join(CommaSpace, non_academic_authors),
                  Company_Affiliations |-> Join(CommaSpace, order),
                  Corresponding_Author_Email |-> CorrAuthorEmail(order) ],
        locals |-> locals,
        exc |-> "none" ] : order \in Orders(company_affiliations) }

\* the state of the loop over the articles: the rows so far, for each row the
\* article it came from and the locals it was built from, and the warnings
EmptyResult ==
  [ rows |-> << >>, origin |-> << >>, warnings |-> << >>, parse_error |-> FALSE ]

\* mutant: the handler also throws away the rows collected so far
HandleArticleError_DropsRows(acc, article, i) ==
  [ EmptyResult EXCEPT !.warnings = Append(acc.warnings, i) ]

\* except Exception: warn with the record's PMID and continue
HandleArticleError(acc, article, i) ==
  [ acc EXCEPT !.warnings = Append(acc.warnings, i) ]

\* one iteration of the loop
ArticleStep(acc, article, i) ==
  { IF o.kind = "row"
      THEN [ acc EXCEPT !.rows = Append(acc.rows, o.row),
                        !.origin = Append(acc.origin,
                                     [ index |-> i,
                                       non_academic_authors |-> o.locals.non_academic_authors,
                                       company_affiliations |-> o.locals.company_affiliations ]) ]
    ELSE IF o.kind = "error" THEN HandleArticleError(acc, article, i)
    ELSE acc
    : o \in ArticleOutcomes(article) }

RECURSIVE ArticleLoop(_, _, _)
\* for article in root.findall('.//PubmedArticle')
ArticleLoop(articles, i, acc) ==
  IF i > Len(articles) THEN { acc }
  ELSE UNION { ArticleLoop(articles, i + 1, acc2) : acc2 \in ArticleStep(acc, articles[i], i) }

\* the possible results of parse_and_filter_papers(xml_data)
parse_and_filter_papers(xml_data_) ==
  IF xml_data_.kind = "empty" THEN { EmptyResult }
  ELSE IF xml_data_.kind = "malformed" THEN { [ EmptyResult EXCEPT !.parse_error = TRUE ] }
  ELSE ArticleLoop(xml_data_.articles, 1, EmptyResult)

-----------------------------------------------------------------------------
(* papers.py: the locator and the fetcher.                                 *)
(*                                                                         *)
(* A value decoded from JSON carries its Python type: t is "NoneType",     *)
(* "str", "int", "list" or "dict"; s holds the characters of a str or the  *)
(* digits of an int; items holds the elements of a list, or the            *)
(* <<key, value>> pairs of a dict.                                         *)

PyNone == [ t |-> "NoneType", s |-> << >>, items |-> << >> ]
PyStr(s) == [ t |-> "str", s |-> s, items |-> << >> ]
PyInt(digits) == [ t |-> "int", s |-> digits, items |-> << >> ]
PyList(items) == [ t |-> "list", s |-> << >>, items |-> items ]
PyDict(pairs) == [ t |-> "dict", s |-> << >>, items |-> pairs ]

\* bool(v)
PyTruthy(v) ==
  CASE v.t = "NoneType" -> FALSE
    [] v.t = "str" -> v.s # << >>
    [] v.t = "int" -> v.s # <<"0">>
    [] OTHER -> v.items # << >>

HasKey(d, key) == \E i \in 1..Len(d.items) : d.items[i][1] = key

\* d.get(key, default) of a dict
DictGet(d, key, default) ==
  IF HasKey(d, key)
    THEN d.items[CHOOSE i \in 1..Len(d.items) : d.items[i][1] = key][2]
    ELSE default

\* what an HTTP request came to: kind is "ok" (a response of success status),
\* "http_error" (raise_for_status raises), "timeout" or "connection_error"
\* (requests.get raises). The body of an ESearch response is form "blank",
\* "not_json" or "json" with the decoded data; the body of an EFetch response is
\* the document.
MkSearchResponse(kind, form, data) == [ kind |-> kind, form |-> form, data |-> data ]
MkFetchResponse(kind, text) == [ kind |-> kind, text |-> text ]

MkRequest(endpoint, id) == [ endpoint |-> endpoint, id |-> id ]

\* the return value of search_pubmed, given what the one request it makes came to
search_pubmed(response) ==
  IF response.kind # "ok" THEN PyList(<< >>)             \* RequestException
  ELSE IF response.form = "blank" THEN PyList(<< >>)
  ELSE IF response.form = "not_json" THEN PyList(<< >>)  \* JSONDecodeError
  ELSE IF response.data.t # "dict" THEN PyList(<< >>)    \* AttributeError: no get
  ELSE LET esearchresult == DictGet(response.data, "esearchresult", PyDict(<< >>)) IN
       IF esearchresult.t # "dict" THEN PyList(<< >>)    \* AttributeError: no get
       ELSE DictGet(esearchresult, "idlist", PyList(<< >>))

\* whether ",".join(pmids) raises TypeError
JoinRaises(pmids_) ==
  CASE pmids_.t = "str" -> FALSE
    [] pmids_.t = "list" -> \E i \in 1..Len(pmids_.items) : pmids_.items[i].t # "str"
    [] pmids_.t = "dict" -> FALSE
    [] OTHER -> TRUE

\* ",".join(pmids): of the elements of a list, of the characters of a str, of
\* the keys of a dict
JoinedIds(pmids_) ==
  CASE pmids_.t = "str" -> Join(<<",">>, [i \in 1..Len(pmids_.s) |-> << pmids_.s[i] >>])
    [] pmids_.t = "list" -> Join(<<",">>, [i \in 1..Len(pmids_.items) |-> pmids_.items[i].s])
    [] OTHER -> Join(<<",">>, [i \in 1..Len(pmids_.items) |-> << pmids_.items[i][1] >>])

\* fetch_paper_details(pmids), given what the request came to if one is made:
\* the value returned, the exception that leaves the function, the requests made
fetch_paper_details(pmids_, response) ==
  IF ~PyTruthy(pmids_)
    THEN [ ret |-> EmptyDocument, raised |-> "none", requests |-> << >> ]
  ELSE IF JoinRaises(pmids_)
    \* the params are built before the try
    THEN [ ret |-> EmptyDocument, raised |-> "TypeError", requests |-> << >> ]
  ELSE [ ret |-> IF response.kind # "ok" THEN EmptyDocument ELSE response.text,
         raised |-> "none",
         requests |-> << MkRequest("efetch", JoinedIds(pmids_)) >> ]

-----------------------------------------------------------------------------
(* The inputs the checks range over *)

MaxFragments == 3
MaxAuthors == 2
MaxArticles == 3
MaxIds == 2
MaxFetched == 1

RECURSIVE SeqsUpTo(_, _)
\* the sequences over S of length at most n
SeqsUpTo(S, n) ==
  IF n = 0 THEN { << >> }
  ELSE LET shorter == SeqsUpTo(S, n - 1) IN
       shorter \cup { Append(q, x) : q \in shorter, x \in S }

RECURSIVE Concat(_)
Concat(parts) ==
  IF parts = << >> THEN << >> ELSE parts[1] \o Concat(Tail(parts))

\* pieces of affiliation text, in mixed case
Fragments ==
  { <<"I","n","c">>, <<"P","H","A","R","M","A">>, <<"G","m","b","H">>,
    <<"U","n","i","v","e","r","s","i","t","y">>, <<"r","e","s","e","a","r","c","h">>,
    <<"C","e","n","t","e","r">>, <<"L","a","b","s">>, <<" ">> }

\* the arguments is_non_academic is called with: None, "" and texts put together
\* from the fragments
AffiliationInputs ==
  { None } \cup { Concat(parts) : parts \in SeqsUpTo(Fragments, MaxFragments) }

PfizerInc == <<"P","f","i","z","e","r"," ","I","n","c">>
HarvardUniversity == <<"H","a","r","v","a","r","d"," ","U","n","i","v","e","r","s","i","t","y">>
PharmaInstitute == <<"P","h","a","r","m","a"," ","I","n","s","t","i","t","u","t","e">>
StarlightLabs == <<"S","t","a","r","l","i","g","h","t"," ","L","a","b","s">>
ShortAt == <<"a","@","b",".","c">>
BobEmail == <<"b","o","b","@","a","c","m","e",".","i","o">>
PharmaEmail == <<"x","@","p","h","a","r","m","a",".","i","o">>
CollegeEmail == <<"a","m","y","@","c","o","l","l","e","g","e",".","e","d","u">>

AffiliationTexts ==
  { PfizerInc, HarvardUniversity, PharmaInstitute, StarlightLabs,
    ShortAt, BobEmail, PharmaEmail, CollegeEmail }

MkAuthor(affiliations, last, initials) ==
  [ affiliations |-> affiliations, LastName |-> last, Initials |-> initials ]

\* Author elements: every affiliation with a full name, and every shape of name
\* with one affiliation
AuthorSet ==
  { MkAuthor(a, <<"S","m","i","t","h">>, <<"J">>) :
      a \in { << >>, << None >>, << HarvardUniversity, PfizerInc >>, << None, PfizerInc >> }
            \cup { << x >> : x \in AffiliationTexts } }
  \cup
  { MkAuthor(<< StarlightLabs >>, last, initials) :
      last \in { Absent, None, <<"L","e","e">> }, initials \in { Absent, None, <<"K">> } }

MkPubDate(present, year, month, day) ==
  [ present |-> present, Year |-> year, Month |-> month, Day |-> day ]

NoPubDate == MkPubDate(FALSE, Absent, Absent, Absent)

\* PubDate elements: none, or one whose Year, Month and Day are each absent,
\* without text, or a date text
PubDateSet ==
  { NoPubDate } \cup
  { MkPubDate(TRUE, y, m, d) :
      y \in { Absent, None, <<"2","0","2","2">> }, m \in { Absent, None, <<"J","a","n">> }, d \in { Absent, <<"1","5">> } }

MkArticle(pmid, title, pub_date, authors) ==
  [ PMID |-> pmid, ArticleTitle |-> title, PubDate |-> pub_date, authors |-> authors ]

FullDate == MkPubDate(TRUE, <<"2","0","2","2">>, <<"J","a","n">>, <<"1","5">>)

\* PubmedArticle elements: every list of authors under one heading, and every
\* heading over one non-academic author
ArticleSet ==
  { MkArticle(<<"1","0","1">>, <<"G","e","n","e"," ","s","t","u","d","y">>, FullDate, authors) :
      authors \in SeqsUpTo(AuthorSet, MaxAuthors) }
  \cup
  { MkArticle(pmid, title, pub_date, << MkAuthor(<< PfizerInc >>, <<"S","m","i","t","h">>, <<"J">>) >>) :
      pmid \in { Absent, None, <<"1","0","1">> },
      title \in { Absent, None, <<"G","e","n","e"," ","s","t","u","d","y">> },
      pub_date \in PubDateSet }

\* the records that documents of several records are put together from
ArticleSamples ==
  { MkArticle(<<"1","0","1">>, <<"G","e","n","e"," ","s","t","u","d","y">>, FullDate,
              << MkAuthor(<< PfizerInc >>, <<"S","m","i","t","h">>, <<"J">>) >>),
    MkArticle(<<"1","0","2">>, <<"G","e","n","e"," ","s","t","u","d","y">>, MkPubDate(TRUE, <<"2","0","2","2">>, Absent, Absent),
              << MkAuthor(<< BobEmail >>, <<"L","e","e">>, <<"K">>),
                 MkAuthor(<< PharmaEmail >>, <<"S","m","i","t","h">>, Absent) >>),
    MkArticle(<<"1","0","3">>, <<"G","e","n","e"," ","s","t","u","d","y">>, FullDate,
              << MkAuthor(<< HarvardUniversity >>, <<"S","m","i","t","h">>, <<"J">>) >>),
    MkArticle(<<"1","0","4">>, <<"G","e","n","e"," ","s","t","u","d","y">>, NoPubDate,
              << MkAuthor(<< PfizerInc >>, <<"S","m","i","t","h">>, <<"J">>) >>),
    MkArticle(<<"1","0","5">>, <<"G","e","n","e"," ","s","t","u","d","y">>, FullDate,
              << MkAuthor(<< StarlightLabs >>, None, Absent) >>),
    MkArticle(<<"1","0","6">>, <<"G","e","n","e"," ","s","t","u","d","y">>, NoPubDate, << >>) }

\* the arguments parse_and_filter_papers is called with
Documents ==
  { EmptyDocument, MalformedDocument }
  \cup { MkDocument("xml", << a >>) : a \in ArticleSet }
  \cup { MkDocument("xml", articles) : articles \in SeqsUpTo(ArticleSamples, MaxArticles) }

IdA == <<"1","1">>
IdB == <<"2","2">>

\* what "idlist" may hold in a response that decodes as JSON: lists of
\* identifiers, and values of other types
IdlistValues ==
  { PyList(ids) : ids \in SeqsUpTo({ PyStr(IdA), PyStr(IdB) }, MaxIds) }
  \cup { PyNone, PyStr(<< >>), PyStr(<<"1","2">>), PyInt(<<"0">>), PyInt(<<"7">>),
         PyList(<< PyInt(<<"7">>) >>), PyDict(<< << "a", PyNone >> >>) }

JsonData ==
  { PyList(<< PyStr(IdA) >>),
    PyDict(<< >>),
    PyDict(<< << "esearchresult", PyNone >> >>),
    PyDict(<< << "esearchresult", PyDict(<< >>) >> >>) }
  \cup { PyDict(<< << "esearchresult", PyDict(<< << "idlist", v >> >>) >> >>) :
           v \in IdlistValues }

FailureKinds == { "timeout", "connection_error", "http_error" }

SearchResponses ==
  { MkSearchResponse(k, "blank", PyNone) : k \in FailureKinds }
  \cup { MkSearchResponse("ok", "blank", PyNone), MkSearchResponse("ok", "not_json", PyNone) }
  \cup { MkSearchResponse("ok", "json", d) : d \in JsonData }

\* the documents the EFetch endpoint answers with
FetchedDocuments ==
  { EmptyDocument, MalformedDocument }
  \cup { MkDocument("xml", articles) : articles \in SeqsUpTo(ArticleSamples, MaxFetched) }

FetchResponses ==
  { MkFetchResponse(k, EmptyDocument) : k \in FailureKinds }
  \cup { MkFetchResponse("ok", d) : d \in FetchedDocuments }

NoSearchResponse == MkSearchResponse("none", "blank", PyNone)
NoFetchResponse == MkFetchResponse("none", EmptyDocument)

\* the arguments fetch_paper_details is called with: lists of identifiers, and
\* whatever search_pubmed may hand to main
PmidsArguments ==
  { PyList(ids) : ids \in SeqsUpTo({ PyStr(IdA), PyStr(IdB) }, MaxIds) }
  \cup { search_pubmed(r) : r \in SearchResponses }

-----------------------------------------------------------------------------
(* Calls of the functions of papers.py on their own *)

NoArgs == [ file |-> FALSE, debug |-> FALSE ]

InitClassify ==
  /\ pc = "classify_call"
  /\ affiliation \in AffiliationInputs
  /\ verdict = FALSE
  /\ args = NoArgs
  /\ search_response = NoSearchResponse
  /\ fetch_response = NoFetchResponse
  /\ pmids = PyNone
  /\ xml_data = EmptyDocument
  /\ results = EmptyResult
  /\ net = << >>
  /\ calls = << >>
  /\ raised = "none"
  /\ stdout = << >>
  /\ stderr = << >>
  /\ report = "none"
  /\ exit_code = -1

\* verdict = is_non_academic(affiliation)
CallClassify ==
  /\ pc = "classify_call"
  /\ verdict' = is_non_academic(affiliation)
  /\ pc' = "classify_returned"
  /\ UNCHANGED << affiliation, args, search_response, fetch_response, pmids, xml_data,
                  results, net, calls, raised, stdout, stderr, report, exit_code >>

SpecClassify == InitClassify /\ [][CallClassify]_vars

InitExtract ==
  /\ pc = "extract_call"
  /\ xml_data \in Documents
  /\ affiliation = None
  /\ verdict = FALSE
  /\ args = NoArgs
  /\ search_response = NoSearchResponse
  /\ fetch_response = NoFetchResponse
  /\ pmids = PyNone
  /\ results = EmptyResult
  /\ net = << >>
  /\ calls = << >>
  /\ raised = "none"
  /\ stdout = << >>
  /\ stderr = << >>
  /\ report = "none"
  /\ exit_code = -1

\* results = parse_and_filter_papers(xml_data)
CallExtract ==
  /\ pc = "extract_call"
  /\ results' \in parse_and_filter_papers(xml_data)
  /\ pc' = "extract_returned"
  /\ UNCHANGED << affiliation, verdict, args, search_response, fetch_response, pmids,
                  xml_data, net, calls, raised, stdout, stderr, report, exit_code >>

SpecExtract == InitExtract /\ [][CallExtract]_vars

InitApi ==
  /\ \/ pc = "locate_call" /\ pmids = PyNone
     \/ pc = "fetch_call" /\ pmids \in PmidsArguments
  /\ affiliation = None
  /\ verdict = FALSE
  /\ args = NoArgs
  /\ search_response = NoSearchResponse
  /\ fetch_response = NoFetchResponse
  /\ xml_data = EmptyDocument
  /\ results = EmptyResult
  /\ net = << >>
  /\ calls = << >>
  /\ raised = "none"
  /\ stdout = << >>
  /\ stderr = << >>
  /\ report = "none"
  /\ exit_code = -1

\* pmids = search_pubmed(query): one request, whatever it comes to
CallLocate ==
  /\ pc = "locate_call"
  /\ \E response \in SearchResponses :
       /\ search_response' = response
       /\ pmids' = search_pubmed(response)
  /\ net' = Append(net, MkRequest("esearch", << >>))
  /\ pc' = "locate_returned"
  /\ UNCHANGED << affiliation, verdict, args, fetch_response, xml_data, results, calls,
                  raised, stdout, stderr, report, exit_code >>

\* xml_data = fetch_paper_details(pmids)
CallFetch ==
  /\ pc = "fetch_call"
  /\ \E response \in FetchResponses :
       LET r == fetch_paper_details(pmids, response) IN
       /\ fetch_response' = IF r.requests = << >> THEN fetch_response ELSE response
       /\ xml_data' = r.ret
       /\ raised' = r.raised
       /\ net' = net \o r.requests
  /\ pc' = "fetch_returned"
  /\ UNCHANGED << affiliation, verdict, args, search_response, pmids, results, calls,
                  stdout, stderr, report, exit_code >>

SpecApi == InitApi /\ [][CallLocate \/ CallFetch]_vars

-----------------------------------------------------------------------------
(* main.py: the pipeline.  pc is "main_start", then "located" after         *)
(* search_pubmed, "fetched" after fetch_paper_details, "extracted" after    *)
(* parse_and_filter_papers, and "done" when the process has exited.         *)

NoResultsMessage == "No results found for your query."
FetchFailedMessage == "Error: Failed to fetch paper details from PubMed."
NoPapersMessage == "No papers with non-academic authors were found in the results."
SavedMessage == "Results successfully saved"
ErrorMessage == "An error occurred"

\* mutant: a bare except, which catches SystemExit too
Catches_Everything(exc) ==
  TRUE

\* except Exception: SystemExit is not an Exception
Catches(exc) ==
  exc # "SystemExit"

\* len(pmids) raises TypeError for a value without a length
LenRaises(v) ==
  v.t \in { "int", "NoneType" }

\* return from main: the process ends with code 0
Return(printed) ==
  /\ pc' = "done"
  /\ exit_code' = 0
  /\ stdout' = stdout \o printed
  /\ UNCHANGED << stderr, raised >>

\* an exception raised inside the try block: the handler prints it on the error
\* stream and calls sys.exit(1); SystemExit itself passes the handler and ends
\* the process with its code, 1
Raise(exc, printed) ==
  /\ pc' = "done"
  /\ raised' = exc
  /\ exit_code' = 1
  /\ stdout' = stdout \o printed
  /\ stderr' = IF Catches(exc) THEN Append(stderr, ErrorMessage) ELSE stderr

Continue(next) ==
  /\ pc' = next
  /\ UNCHANGED << exit_code, stdout, stderr, raised >>

InitMain ==
  /\ pc = "main_start"
  /\ args \in [ file : BOOLEAN, debug : BOOLEAN ]
  /\ affiliation = None
  /\ verdict = FALSE
  /\ search_response = NoSearchResponse
  /\ fetch_response = NoFetchResponse
  /\ pmids = PyNone
  /\ xml_data = EmptyDocument
  /\ results = EmptyResult
  /\ net = << >>
  /\ calls = << >>
  /\ raised = "none"
  /\ stdout = << >>
  /\ stderr = << >>
  /\ report = "none"
  /\ exit_code = -1

\* pmids = papers.search_pubmed(args.query), and the test of it
MainLocate ==
  /\ pc = "main_start"
  /\ calls' = Append(calls, "locate")
  /\ net' = Append(net, MkRequest("esearch", << >>))
  /\ \E response \in SearchResponses :
       LET ids == search_pubmed(response) IN
       /\ search_response' = response
       /\ pmids' = ids
       /\ IF ~PyTruthy(ids) THEN Return(<< NoResultsMessage >>)
          ELSE IF args.debug /\ LenRaises(ids) THEN Raise("TypeError", << >>)
          ELSE Continue("located")
  /\ UNCHANGED << affiliation, verdict, args, fetch_response, xml_data, results, report >>

\* xml_data = papers.fetch_paper_details(pmids), and the test of it
MainFetch ==
  /\ pc = "located"
  /\ calls' = Append(calls, "fetch")
  /\ \E response \in FetchResponses :
       LET r == fetch_paper_details(pmids, response) IN
       /\ fetch_response' = IF r.requests = << >> THEN fetch_response ELSE response
       /\ net' = net \o r.requests
       /\ IF r.raised # "none"
            THEN xml_data' = xml_data /\ Raise(r.raised, << >>)
          ELSE /\ xml_data' = r.ret
               /\ IF r.ret.kind = "empty"
                    THEN Raise("SystemExit", << FetchFailedMessage >>)
                    ELSE Continue("fetched")
  /\ UNCHANGED << affiliation, verdict, args, search_response, pmids, results, report >>

\* results = papers.parse_and_filter_papers(xml_data), and the test of it
MainExtract ==
  /\ pc = "fetched"
  /\ calls' = Append(calls, "extract")
  /\ \E r \in parse_and_filter_papers(xml_data) :
       /\ results' = r
       /\ IF r.rows = << >> THEN Return(<< NoPapersMessage >>)
          ELSE Continue("extracted")
  /\ UNCHANGED << affiliation, verdict, args, search_response, fetch_response, pmids,
                  xml_data, net, report >>

\* the table is written to the file or to the output stream; writing may fail
MainReport ==
  /\ pc = "extracted"
  /\ \E written \in BOOLEAN :
       IF ~written THEN report' = report /\ Raise("OSError", << >>)
       ELSE IF args.file THEN report' = "file" /\ Return(<< SavedMessage >>)
       ELSE report' = "stdout" /\ Return(<< >>)
  /\ UNCHANGED << affiliation, verdict, args, search_response, fetch_response, pmids,
                  xml_data, results, net, calls >>

MainNext == MainLocate \/ MainFetch \/ MainExtract \/ MainReport

SpecMain == InitMain /\ [][MainNext]_vars

-----------------------------------------------------------------------------
(* The classifier's claims, under SpecClassify *)

\* kw occurs in text when case is ignored
OccursIgnoringCase(kw, text) ==
  \E i \in 0..(Len(text) - Len(kw)) :
    \A j \in 1..Len(kw) : LowerChar(text[i + j]) = kw[j]

HasCompanyTerm(text) ==
  \E k \in 1..Len(COMPANY_KEYWORDS) : OccursIgnoringCase(COMPANY_KEYWORDS[k], text)

HasAcademicTerm(text) ==
  \E k \in 1..Len(ACADEMIC_KEYWORDS) : OccursIgnoringCase(ACADEMIC_KEYWORDS[k], text)

\* C2: an affiliation that contains, case ignored, a company term and an
\* academic term is classified NON_ACADEMIC.
C2_CompanyPrecedence ==
  (pc = "classify_returned" /\ IsStr(affiliation)
     /\ HasCompanyTerm(affiliation) /\ HasAcademicTerm(affiliation))
  => verdict = TRUE

\* a text with a company term and an academic term, in capitals, has been classified
C2_Witness ==
  /\ pc = "classify_returned"
  /\ affiliation = <<"P","H","A","R","M","A">> \o <<" ">> \o <<"U","n","i","v","e","r","s","i","t","y">>
  /\ verdict = TRUE

\* C3: an affiliation without any company term is classified ACADEMIC when it is
\* absent, empty or contains an academic term, and NON_ACADEMIC when it is
\* non-empty and contains no term of either list.
C3_AcademicOrFallback ==
  (pc = "classify_returned" /\ (IsStr(affiliation) => ~HasCompanyTerm(affiliation)))
  => IF ~IsStr(affiliation) \/ affiliation = << >> THEN verdict = FALSE
     ELSE IF HasAcademicTerm(affiliation) THEN verdict = FALSE
     ELSE verdict = TRUE

\* an academic text in capitals has been classified ACADEMIC
C3_Witness ==
  /\ pc = "classify_returned"
  /\ affiliation = <<"U","n","i","v","e","r","s","i","t","y">> \o <<" ">> \o <<"L","a","b","s">>
  /\ verdict = FALSE

-----------------------------------------------------------------------------
(* The extractor's claims, under SpecExtract *)

Returned == pc = "extract_returned"

Rows == 1..Len(results.rows)

\* the record section row k was made from
SourceOf(k) == xml_data.articles[results.origin[k].index]

\* the class of an author: that of the text of its first affiliation, an author
\* without it being ACADEMIC
IsNonAcademicAuthor(author) ==
  LET a == FirstAffiliation(author) IN
  is_non_academic(IF a = Absent THEN None ELSE a)

HasNonAcademic(article) ==
  \E i \in 1..Len(article.authors) : IsNonAcademicAuthor(article.authors[i])

\* C1: every row comes from a record with an author classified NON_ACADEMIC, a
\* record without one gives no row, and the row's list of non-academic authors
\* is not empty.
C1_RowsHaveNonAcademicAuthor ==
  Returned =>
    /\ \A k \in Rows :
         /\ results.origin[k].index \in 1..Len(xml_data.articles)
         /\ HasNonAcademic(SourceOf(k))
         /\ results.origin[k].non_academic_authors # << >>
         /\ results.rows[k].Non_academic_Authors # << >>
    /\ \A i \in 1..Len(xml_data.articles) :
         ~HasNonAcademic(xml_data.articles[i])
           => \A k \in Rows : results.origin[k].index # i

\* a document of a record with only an academic author and a record with a
\* non-academic one has given one row
C1_Witness ==
  /\ Returned
  /\ Len(xml_data.articles) = 2
  /\ ~HasNonAcademic(xml_data.articles[1])
  /\ xml_data.articles[1].authors # << >>
  /\ Len(results.rows) = 1
  /\ results.origin[1].index = 2

\* the indices of the records whose processing failed
Failed == { results.warnings[w] : w \in 1..Len(results.warnings) }

RECURSIVE Without(_, _, _)
\* the articles from index i on, those with an index in bad left out
Without(articles, bad, i) ==
  IF i > Len(articles) THEN << >>
  ELSE IF i \in bad THEN Without(articles, bad, i + 1)
  ELSE << articles[i] >> \o Without(articles, bad, i + 1)

\* C4: a failure while processing a record skips that record with a warning and
\* nothing else: the rows are those of the document without the failed records.
C4_FailureIsolated ==
  (Returned /\ xml_data.kind = "xml") =>
    /\ \A w1, w2 \in 1..Len(results.warnings) :
         w1 < w2 => results.warnings[w1] < results.warnings[w2]
    /\ \A k \in Rows : results.origin[k].index \notin Failed
    /\ \E clean \in parse_and_filter_papers(
                      MkDocument("xml", Without(xml_data.articles, Failed, 1))) :
         /\ clean.warnings = << >>
         /\ clean.rows = results.rows

\* a failing record between two qualifying ones: one warning, the two other rows
C4_Witness ==
  /\ Returned
  /\ Len(xml_data.articles) = 3
  /\ results.warnings = << 2 >>
  /\ Len(results.rows) = 2
  /\ results.origin[1].index = 1
  /\ results.origin[2].index = 3

\* the text of a sub-field that is there
TextOf(child) == IF child = None THEN << >> ELSE child

OrNA(child) == IF child = Absent THEN NA ELSE TextOf(child)

StartsWith(text, prefix) ==
  Len(text) >= Len(prefix) /\ SubSeq(text, 1, Len(prefix)) = prefix

\* C5: the date of a row is "N/A" when the record has no year, else year, month
\* and day joined by "-", month and day each "N/A" when absent; it never begins
\* with "N/A-".
C5_PublicationDate ==
  Returned =>
    \A k \in Rows :
      LET d == SourceOf(k).PubDate
          date == results.rows[k].Publication_Date
      IN
      /\ d.Year = Absent => date = NA
      /\ d.Year # Absent =>
           date = TextOf(d.Year) \o <<"-">> \o OrNA(d.Month) \o <<"-">> \o OrNA(d.Day)
      /\ ~StartsWith(date, <<"N","/","A","-">>)

\* a record with year 2022 and neither month nor day has given "2022-N/A-N/A"
C5_Witness ==
  /\ Returned
  /\ \E k \in Rows :
       /\ SourceOf(k).PubDate.Month = Absent
       /\ SourceOf(k).PubDate.Day = Absent
       /\ results.rows[k].Publication_Date =
            <<"2","0","2","2","-","N","/","A","-","N","/","A">>

\* the row's company affiliations that contain "@" and have more than 5 characters
EmailLike(k) ==
  { a \in results.origin[k].company_affiliations :
      (\E i \in 1..Len(a) : a[i] = "@") /\ Len(a) > 5 }

\* C9: the email of a row is "N/A" exactly when none of the row's company
\* affiliations contains "@" and is longer than 5 characters, else one of those
\* that do, verbatim; it is never an affiliation of an author classified ACADEMIC.
C9_CorrespondingEmail ==
  Returned =>
    \A k \in Rows :
      LET email == results.rows[k].Corresponding_Author_Email
          authors == SourceOf(k).authors
      IN
      /\ results.origin[k].company_affiliations =
           { FirstAffiliation(authors[i]) :
               i \in { j \in 1..Len(authors) : IsNonAcademicAuthor(authors[j]) } }
      /\ email = NA <=> EmailLike(k) = { }
      /\ EmailLike(k) # { } => email \in EmailLike(k)
      /\ \A i \in 1..Len(authors) :
           ~IsNonAcademicAuthor(authors[i]) /\ email # NA
             => email # FirstAffiliation(authors[i])

\* a row with two qualifying affiliations has taken the second author's
C9_Witness ==
  /\ Returned
  /\ \E k \in Rows :
       /\ Cardinality(EmailLike(k)) = 2
       /\ results.rows[k].Corresponding_Author_Email = PharmaEmail
       /\ FirstAffiliation(SourceOf(k).authors[1]) = BobEmail

\* the records with an author whose first affiliation has text and is
\* classified NON_ACADEMIC
Qualifying ==
  { i \in 1..Len(xml_data.articles) : HasNonAcademic(xml_data.articles[i]) }

\* C10: every record with a non-academic author gives exactly one row, in
\* document order, whatever else the record lacks; the defaults stand in for an
\* absent id, title or date.
C10_EveryQualifyingRecordGivesARow ==
  (Returned /\ xml_data.kind = "xml") =>
    /\ Len(results.rows) = Cardinality(Qualifying)
    /\ \A i \in Qualifying : \E k \in Rows : results.origin[k].index = i
    /\ \A k1, k2 \in Rows :
         k1 < k2 => results.origin[k1].index < results.origin[k2].index
    /\ \A k \in Rows :
         /\ SourceOf(k).PMID = Absent => results.rows[k].PubmedID = NA
         /\ SourceOf(k).ArticleTitle = Absent => results.rows[k].Title = NoTitle
         /\ ~SourceOf(k).PubDate.present => results.rows[k].Publication_Date = NA

\* What does hold of the rows: they come from the qualifying records in document
\* order, at most one each, with the defaults for an absent id or title.
RowsInDocumentOrder ==
  (Returned /\ xml_data.kind = "xml") =>
    /\ \A k \in Rows : results.origin[k].index \in Qualifying
    /\ \A k1, k2 \in Rows :
         k1 < k2 => results.origin[k1].index < results.origin[k2].index
    /\ \A k \in Rows :
         /\ SourceOf(k).PMID = Absent => results.rows[k].PubmedID = NA
         /\ SourceOf(k).ArticleTitle = Absent => results.rows[k].Title = NoTitle

-----------------------------------------------------------------------------
(* The locator's and the fetcher's claim, under SpecApi *)

\* a list of identifiers: a list of str
IsIdList(v) ==
  v.t = "list" /\ \A i \in 1..Len(v.items) : v.items[i].t = "str"

\* the response is of success status and its body decodes to JSON of the
\* ESearch shape: {"esearchresult": {"idlist": [str, ...]}}
WellShaped(response) ==
  /\ response.kind = "ok"
  /\ response.form = "json"
  /\ response.data.t = "dict"
  /\ HasKey(response.data, "esearchresult")
  /\ LET esearchresult == DictGet(response.data, "esearchresult", PyNone) IN
     /\ esearchresult.t = "dict"
     /\ HasKey(esearchresult, "idlist")
     /\ IsIdList(DictGet(esearchresult, "idlist", PyNone))

\* C8: locate and fetch never raise; locate makes one request and returns the
\* empty list whenever the request fails or the response is empty, not JSON or
\* wrongly shaped; fetch of an empty list returns the empty document without a
\* request, and otherwise makes one request and returns the empty document
\* when it fails.
C8_FailSoft ==
  /\ pc = "locate_returned" =>
       /\ raised = "none"
       /\ Len(net) = 1
       /\ ~WellShaped(search_response) => pmids = PyList(<< >>)
  /\ pc = "fetch_returned" =>
       /\ raised = "none"
       /\ pmids = PyList(<< >>) => (xml_data = EmptyDocument /\ net = << >>)
       /\ pmids # PyList(<< >>) =>
            /\ Len(net) = 1
            /\ fetch_response.kind # "ok" => xml_data = EmptyDocument

\* What does hold: locate never raises and makes one request; fetch of a list
\* of identifiers never raises, makes no request for the empty list and one
\* request otherwise, and returns the empty document when the request fails.
FailSoftOnIdentifierLists ==
  /\ pc = "locate_returned" =>
       /\ raised = "none"
       /\ Len(net) = 1
       /\ (search_response.kind # "ok" \/ search_response.form # "json")
            => pmids = PyList(<< >>)
  /\ (pc = "fetch_returned" /\ IsIdList(pmids)) =>
       /\ raised = "none"
       /\ pmids = PyList(<< >>) => (xml_data = EmptyDocument /\ net = << >>)
       /\ pmids # PyList(<< >>) =>
            /\ net = << MkRequest("efetch", JoinedIds(pmids)) >>
            /\ fetch_response.kind # "ok" => xml_data = EmptyDocument

-----------------------------------------------------------------------------
(* The pipeline's claims, under SpecMain *)

Done == pc = "done"

IsPrefix(p, q) == Len(p) <= Len(q) /\ SubSeq(q, 1, Len(p)) = p

Invoked(stage) == \E i \in 1..Len(calls) : calls[i] = stage

\* the stage has returned, and what it returned is empty
LocateReturnedEmpty == Invoked("locate") /\ ~PyTruthy(pmids)
FetchReturnedEmpty ==
  Invoked("fetch") /\ (Done \/ pc = "fetched") /\ raised # "TypeError"
    /\ xml_data.kind = "empty"
ExtractReturnedEmpty == Invoked("extract") /\ results.rows = << >>

\* the stages are invoked in the order locate, fetch, extract, each at most once
StagesForward ==
  IsPrefix(calls, << "locate", "fetch", "extract" >>)

\* no stage follows one that returned an empty result
EmptyResultHalts ==
  /\ LocateReturnedEmpty => calls = << "locate" >>
  /\ FetchReturnedEmpty => calls = << "locate", "fetch" >>
  /\ ExtractReturnedEmpty => (Done /\ report = "none")

\* C6: the stages are invoked in the order locate, fetch, extract, each at most
\* once; fetch only after locate returned a non-empty identifier list, extract
\* only after fetch returned a non-empty document; after an empty result no
\* stage is invoked.
C6_StagesInOrder ==
  /\ StagesForward
  /\ EmptyResultHalts
  /\ Invoked("fetch") => (IsIdList(pmids) /\ pmids.items # << >>)
  /\ Invoked("extract") => xml_data.kind # "empty"

\* What does hold: the order, the halt on an empty result, and fetch only after
\* locate returned something that is not empty.
StagesInOrderOfTruthyResults ==
  /\ StagesForward
  /\ EmptyResultHalts
  /\ Invoked("fetch") => PyTruthy(pmids)
  /\ Invoked("extract") => xml_data.kind # "empty"

\* the four ways a run ends
InfoExit ==
  /\ exit_code = 0
  /\ stdout \in { << NoResultsMessage >>, << NoPapersMessage >> }
  /\ stderr = << >>
  /\ report = "none"
ReportExit ==
  /\ exit_code = 0
  /\ report # "none"
  /\ stderr = << >>
  /\ NoResultsMessage \notin { stdout[i] : i \in 1..Len(stdout) }
  /\ NoPapersMessage \notin { stdout[i] : i \in 1..Len(stdout) }
FetchFailureExit ==
  /\ exit_code # 0
  /\ stdout = << FetchFailedMessage >>
  /\ stderr = << >>
  /\ report = "none"
ErrorExit ==
  /\ exit_code # 0
  /\ stderr = << ErrorMessage >>
  /\ report = "none"

UnexpectedFailure == raised \notin { "none", "SystemExit" }

\* C7: every run ends, in exactly one of four ways: code 0 and a message when
\* locate returned no identifier or extract no row; code 0 and the report when
\* there is a row; a non-zero code when fetch returned the empty document, the
\* handler adding nothing; a non-zero code and the error on the error stream
\* after any other failure.
C7_ExitOutcomes ==
  /\ ~Done => (exit_code = -1 /\ ENABLED MainNext)
  /\ Done =>
       /\ ~ENABLED MainNext
       /\ Cardinality({ o \in { "info", "report", "fetch_failure", "error" } :
                          \/ o = "info" /\ InfoExit
                          \/ o = "report" /\ ReportExit
                          \/ o = "fetch_failure" /\ FetchFailureExit
                          \/ o = "error" /\ ErrorExit }) = 1
       /\ InfoExit <=> (~UnexpectedFailure /\ (LocateReturnedEmpty \/ ExtractReturnedEmpty))
       /\ ReportExit <=> (~UnexpectedFailure /\ Invoked("extract") /\ results.rows # << >>)
       /\ FetchFailureExit <=> FetchReturnedEmpty
       /\ ErrorExit <=> UnexpectedFailure

\* a run has ended on a fetch failure: code 1, nothing on the error stream
C7_Witness ==
  /\ Done
  /\ FetchReturnedEmpty
  /\ fetch_response.kind = "timeout"
  /\ exit_code = 1
  /\ stderr = << >>

=============================================================================
